---------------------------- MODULE Spec2Model ----------------------------
(***************************************************************************)
(* glacsync: synchronisation of local directories with an Amazon Glacier   *)
(* vault (src/glacsync/glacsync.py).                                       *)
(*                                                                         *)
(* Three specifications share the definitions below:                       *)
(*   DiffSpec   the pure change-detection classes (SimpleDiffer,           *)
(*              LastModifiedDiffer, DifferRunner) applied to bounded       *)
(*              inputs;                                                    *)
(*   StoreSpec  GlacierLocalDatabaseFile driven through its public         *)
(*              methods, as the unit tests drive it, with process crashes; *)
(*   Spec       the GlacierSync process: construction, sync(), the local   *)
(*              filesystem changing under it, remote failures and crashes. *)
(*                                                                         *)
(* Time is counted in ticks, TicksPerSec ticks to the second, so that the  *)
(* sub-second part of a timestamp, which timetuple() drops, is visible.    *)
(***************************************************************************)
EXTENDS Integers, Sequences, FiniteSets, TLC

\* ------------------------------------------------------------------ bounds
TicksPerSec == 2
TzOffsetSecs == 1
MaxNow == 2
MaxArchives == 3
MaxListing == 2
MaxDiffers == 2
MaxFiles == 2
MaxJobs == 2
MaxInventory == 1
MaxEntries == 3

Paths == {"a.txt", "b.txt"}
FlaggedPath == "b.txt"
Ticks == 0..MaxNow
Uuids == 1..MaxArchives
\* the archive and job ids the unit tests use
TestUuids == {1, 2}

VARIABLES
    localfs,       \* local directory: path -> mtime in ticks, or NoFile
    now,           \* wall clock, in ticks
    vault,         \* Glacier vault: set of archives [id, description]
    nextId,        \* next archive id the vault hands out
    glacierJobs,   \* jobs of the vault: job id -> completed, and its output
    mem,           \* GlacierLocalDatabaseFile._filedata of the live process
    disk,          \* content of the backing file self.filename
    pc,            \* position of the GlacierSync process
    diff,          \* `differences` computed by sync()
    cur,           \* the file / pair sync() is working on
    spc,           \* position of a direct client of GlacierLocalDatabaseFile
    call,          \* the store method that client called last, with arguments
    ret,           \* what the last enumeration of pending_jobs, or restoredb(), produced
    dLocalFiles,   \* DiffSpec input: local_filesystem.files
    dRemoteFiles,  \* DiffSpec input: remote_filesystem.files
    dDiffers,      \* DiffSpec input: differs
    dOut           \* DiffSpec: the value the last evaluated property returned

envVars == <<localfs, now>>
remoteVars == <<vault, nextId, glacierJobs>>
dbVars == <<mem, disk>>
syncVars == <<pc, diff, cur>>
storeVars == <<spc, call, ret>>
diffVars == <<dLocalFiles, dRemoteFiles, dDiffers, dOut>>
vars == <<localfs, now, vault, nextId, glacierJobs, mem, disk, pc, diff, cur,
          spc, call, ret, dLocalFiles, dRemoteFiles, dDiffers, dOut>>

\* ------------------------------------------------------------ time values
\* JSON-level values: an int (epoch seconds) or a datetime object (ticks).
JInt(n) == [t |-> "int", v |-> n]
JDateTime(d) == [t |-> "datetime", v |-> d]

\* datetime.fromtimestamp(t): naive local time of the epoch time t
fromtimestamp(t) == t + TzOffsetSecs * TicksPerSec

\* datetime.now()
datetime_now(clock) == fromtimestamp(clock)

\* timegm(d.timetuple()): d read as UTC, in whole seconds; timetuple() has
\* no sub-second field
timegm(d) == d \div TicksPerSec

\* datetime.utcfromtimestamp(s) for an int s
utcfromtimestamp(s) == s * TicksPerSec

\* ------------------------------------------------------------ file records
NoFile == -1

LocalFile(p) == [variant |-> "local", path |-> p]
RemoteFile(entry) == [variant |-> "remote", file_json_data |-> entry]
\* tests.py Struct / FileTested: plain attributes
Struct(p, lm, u) == [variant |-> "struct", path |-> p, last_modified |-> lm, uuid |-> u]

Path(f) == IF f.variant = "remote" THEN f.file_json_data.path ELSE f.path

Uuid(f) == IF f.variant = "remote" THEN f.file_json_data.uuid ELSE f.uuid

\* last_modified property; LocalFile reads the filesystem at access time
LastModified(f) ==
    CASE f.variant = "local" -> fromtimestamp(localfs[f.path])
      [] f.variant = "remote" -> utcfromtimestamp(f.file_json_data.last_modified.v)
      [] OTHER -> f.last_modified

UploadedAt(f) == utcfromtimestamp(f.file_json_data.uploaded_at.v)

\* __gt__ written with >=
FileGtOrEqual(self, other) == LastModified(self) >= LastModified(other)

FileGt(self, other) == LastModified(self) > LastModified(other)

\* __eq__ left to object: two records are equal when they are the same in all
FileEqByObject(self, other) == self = other

FileEq(self, other) == Path(self) = Path(other)

FileHash(self) == Path(self)

\* set(iterable) over File objects: an element equal to one already in the
\* set is not added, so the first of each path stays
PySet(s) == {s[i] : i \in {k \in DOMAIN s : \A j \in 1..(k-1) : ~FileEq(s[j], s[k])}}

\* a - b comparing whole objects instead of File.__eq__
PySetDifferenceByObject(a, b) == a \ b

\* a - b over sets of File objects
PySetDifference(a, b) == {x \in a : \A y \in b : ~FileEq(x, y)}

\* ----------------------------------------------------------------- differs
\* differences without the `if curr_file == remote_file` test
SimpleDifferAllPairs(local_files, remote_files) ==
    [new_files |-> PySetDifference(local_files, remote_files),
     deleted_files |-> PySetDifference(remote_files, local_files),
     maybe_modified_files |-> local_files \X remote_files]

SimpleDiffer(local_files, remote_files) ==
    [new_files |-> PySetDifference(local_files, remote_files),
     deleted_files |-> PySetDifference(remote_files, local_files),
     maybe_modified_files |->
        {pr \in local_files \X remote_files : FileEq(pr[1], pr[2])}]

LastModifiedDiffer(local_file, remote_file) == FileGt(local_file, remote_file)

\* tests.py DifferForDifferRunnerTest: flags one fixed identity
DifferForDifferRunnerTest(local, remote) ==
    Path(local) = FlaggedPath /\ Path(remote) = FlaggedPath

Differs == {"LastModifiedDiffer", "DifferForDifferRunnerTest"}

local_is_modified(differ, l, r) ==
    IF differ = "LastModifiedDiffer" THEN LastModifiedDiffer(l, r)
    ELSE DifferForDifferRunnerTest(l, r)

\* the loops of differences run over every local and remote record
DifferInstancesAllPairs(local_listing, remote_listing, differs) ==
    {[pair |-> currpair, differ |-> i] :
        currpair \in PySet(local_listing) \X PySet(remote_listing), i \in DOMAIN differs}

\* the differ objects differences constructs: current_differ(*currpair) in the
\* inner loop, once for each pair and each position of the differ list
DifferInstances(local_listing, remote_listing, differs) ==
    {[pair |-> currpair, differ |-> i] :
        currpair \in SimpleDiffer(PySet(local_listing), PySet(remote_listing)).maybe_modified_files,
        i \in DOMAIN differs}

\* differences flagging a pair only when every differ flags it
DifferRunnerAllAgree(local_listing, remote_listing, differs) ==
    LET simpleresult == SimpleDiffer(PySet(local_listing), PySet(remote_listing))
    IN [new_files |-> simpleresult.new_files,
        deleted_files |-> simpleresult.deleted_files,
        modified_files |->
            {currpair \in simpleresult.maybe_modified_files :
                \A i \in DOMAIN differs :
                    local_is_modified(differs[i], currpair[1], currpair[2])}]

DifferRunner(local_listing, remote_listing, differs) ==
    LET simpleresult == SimpleDiffer(PySet(local_listing), PySet(remote_listing))
        files_differs_decided_to_reupload ==
            {currpair \in simpleresult.maybe_modified_files :
                \E i \in DOMAIN differs :
                    local_is_modified(differs[i], currpair[1], currpair[2])}
    IN [new_files |-> simpleresult.new_files,
        deleted_files |-> simpleresult.deleted_files,
        modified_files |-> files_differs_decided_to_reupload]

\* ------------------------------------------------- GlacierLocalDatabaseFile
NoMem == [none |-> TRUE]
EmptyData == [files |-> <<>>, pending_jobs |-> <<>>]

\* the backing file: missing, a complete JSON document, or cut short
Absent == [kind |-> "absent"]
Partial == [kind |-> "partial"]

\* the document of the earlier layout, which had no pending_jobs
JsonDumpFilesOnly(filedata) ==
    [kind |-> "doc", files |-> filedata.files, pending_jobs |-> <<>>]

\* json.dump(self._filedata, db_file), the document once the file is closed
JsonDump(filedata) ==
    [kind |-> "doc", files |-> filedata.files, pending_jobs |-> filedata.pending_jobs]

\* json.load(db_file) of a complete document
JsonLoad(d) == [files |-> d.files, pending_jobs |-> d.pending_jobs]

\* json can encode str and int values; a datetime raises TypeError
Serializable(filedata) ==
    \A i \in DOMAIN filedata.files :
        /\ filedata.files[i].last_modified.t = "int"
        /\ filedata.files[i].uploaded_at.t = "int"

\* __init__ without the except clause: a missing file ends it with IOError
DatabaseInitNoExcept(d) ==
    CASE d.kind = "doc" -> JsonLoad(d)
      [] OTHER -> NoMem

\* __init__: IOError (no file) gives empty collections, a document is loaded,
\* anything else makes json.load raise ValueError (NoMem: no instance)
DatabaseInit(d) ==
    CASE d.kind = "absent" -> EmptyData
      [] d.kind = "doc" -> JsonLoad(d)
      [] OTHER -> NoMem

\* files property, drained into a list
Files(filedata) == [i \in DOMAIN filedata.files |-> RemoteFile(filedata.files[i])]

JobClasses == {"PendingJob", "RetreiveInvetoryJob"}

\* PendingJob(entry) / RetreiveInvetoryJob(entry)
JobObject(cls, u) == [class |-> cls, uuid |-> u]

\* pending_jobs without the __job_type test: every entry becomes an object
PendingJobsUnchecked(filedata) ==
    [jobs |-> [i \in DOMAIN filedata.pending_jobs |->
                [class |-> filedata.pending_jobs[i].job_type,
                 uuid |-> filedata.pending_jobs[i].uuid]],
     exc |-> "none"]

\* pending_jobs property, drained: the jobs yielded before the generator
\* raises, and the exception it raises, if any
PendingJobs(filedata) ==
    LET entries == filedata.pending_jobs
        bad == {i \in DOMAIN entries : entries[i].job_type \notin JobClasses}
        stop == IF bad = {} THEN Len(entries) + 1
                ELSE CHOOSE i \in bad : \A j \in bad : i <= j
    IN [jobs |-> [i \in 1..(stop - 1) |-> JobObject(entries[i].job_type, entries[i].uuid)],
        exc |-> IF bad = {} THEN "none" ELSE "InvalidJobTypeException"]

\* add_file putting the new entry first
add_fileFirst(filedata, local_file, uuid, clock) ==
    [filedata EXCEPT !.files =
        <<[path |-> Path(local_file),
           last_modified |-> JInt(timegm(LastModified(local_file))),
           uploaded_at |-> JInt(timegm(datetime_now(clock))),
           uuid |-> uuid]>> \o @]

add_file(filedata, local_file, uuid, clock) ==
    LET file_entry == [path |-> Path(local_file),
                       last_modified |-> JInt(timegm(LastModified(local_file))),
                       uploaded_at |-> JInt(timegm(datetime_now(clock))),
                       uuid |-> uuid]
    IN [filedata EXCEPT !.files = Append(@, file_entry)]

\* boto.utils.parse_ts: the datetime a timestamp string denotes.  Line 233
\* of the source lacks the colon after 'last_modified'; it is read with it.
parse_ts(ts) == ts.iso

restore_from_amazon(filedata, amaozn_data) ==
    [filedata EXCEPT !.files =
        [i \in DOMAIN amaozn_data |->
            [path |-> amaozn_data[i].ArchiveDescription,
             last_modified |-> JDateTime(parse_ts(amaozn_data[i].CreationDate)),
             uploaded_at |-> JDateTime(parse_ts(amaozn_data[i].CreationDate)),
             uuid |-> amaozn_data[i].ArchiveId]]]

\* delete_file matching on path
delete_fileByPath(filedata, remote_file) ==
    LET keep(entry) == entry.path # Path(remote_file)
    IN [filedata EXCEPT !.files = SelectSeq(@, keep)]

delete_file(filedata, remote_file) ==
    LET keep(entry) == entry.uuid # Uuid(remote_file)
    IN [filedata EXCEPT !.files = SelectSeq(@, keep)]

\* add_pending_job recording every job under the name of the base class
add_pending_jobBaseClass(filedata, job) ==
    LET job_entry == [job_type |-> "PendingJob", uuid |-> job.uuid]
    IN [filedata EXCEPT !.pending_jobs = Append(@, job_entry)]

add_pending_job(filedata, job) ==
    LET job_entry == [job_type |-> job.class, uuid |-> job.uuid]
    IN [filedata EXCEPT !.pending_jobs = Append(@, job_entry)]

delete_pending_job(filedata, job) ==
    LET keep(entry) == entry.uuid # job.uuid
    IN [filedata EXCEPT !.pending_jobs = SelectSeq(@, keep)]

\* write(), first half: file(self.filename, 'w') truncates the backing file
\* before anything of the new document is in it
WriteOpen(filedata) ==
    /\ mem' = filedata
    /\ disk' = Partial

\* write(), second half: json.dump runs to the end and the file is closed,
\* or json.dump raises on a value it cannot encode and leaves what it wrote
WriteClose ==
    /\ mem' = mem
    /\ disk' = IF Serializable(mem) THEN JsonDump(mem) ELSE Partial

\* ------------------------------------------------------------ initial state
NoCall == [op |-> "none", file |-> Struct("", 0, 0), job |-> JobObject("", 0), data |-> <<>>]
NoRet == [jobs |-> <<>>, exc |-> "unset"]
NoDiff == [new_files |-> {}, deleted_files |-> {}, modified_files |-> {}]
NoEntry == [path |-> "", last_modified |-> JInt(0), uploaded_at |-> JInt(0), uuid |-> 0]
NoCur == [kind |-> "none", file |-> LocalFile(""), old |-> RemoteFile(NoEntry), uuid |-> 0, step |-> 0]

InitEnv == localfs = [p \in Paths |-> NoFile] /\ now = 0
\* a job of the vault that has not completed
JobRunning == [completed |-> FALSE, ArchiveList |-> <<>>]
InitRemote ==
    /\ vault = {}
    /\ nextId = 1
    /\ glacierJobs = [u \in TestUuids |-> JobRunning]
InitDb == mem = NoMem /\ disk = Absent
InitSync == pc = "down" /\ diff = NoDiff /\ cur = NoCur
InitStore == spc = "new" /\ call = NoCall /\ ret = NoRet
NoOut == [fn |-> "none", result |-> NoDiff]
InitDiff == dLocalFiles = <<>> /\ dRemoteFiles = <<>> /\ dDiffers = <<>> /\ dOut = NoOut

\* --------------------------------- StoreSpec: the store through its methods
StoreFrame == UNCHANGED <<localfs, vault, nextId, glacierJobs, pc, diff, cur, diffVars>>

\* the objects the unit tests hand to the store
TestFiles == {Struct(p, fromtimestamp(t), 0) : p \in Paths, t \in Ticks}
TestJobs == {JobObject(c, u) : c \in JobClasses \cup {"Struct"}, u \in TestUuids}
Archives == [ArchiveDescription : Paths, CreationDate : {[iso |-> t] : t \in 0..now},
             ArchiveId : TestUuids]
Inventories == UNION {[1..n -> Archives] : n \in 0..MaxInventory}

\* GlacierLocalDatabaseFile(filename): first construction or a reload
SConstruct ==
    /\ spc \in {"new", "ready", "raised", "crashed", "exited"}
    /\ mem' = DatabaseInit(disk)
    /\ disk' = disk
    /\ spc' = IF DatabaseInit(disk) = NoMem THEN "raised" ELSE "ready"
    /\ call' = [NoCall EXCEPT !.op = "__init__"]
    /\ ret' = NoRet
    /\ now' = now
    /\ StoreFrame

SAddFile(local_file, uuid) ==
    /\ spc = "ready"
    /\ Len(mem.files) < MaxFiles
    /\ Len(mem.files) + Len(mem.pending_jobs) < MaxEntries
    /\ WriteOpen(add_file(mem, local_file, uuid, now))
    /\ spc' = "writing"
    /\ call' = [NoCall EXCEPT !.op = "add_file", !.file = Struct(local_file.path, local_file.last_modified, uuid)]
    /\ ret' = NoRet
    /\ now' = now
    /\ StoreFrame

SDeleteFile(remote_file) ==
    /\ spc = "ready"
    /\ WriteOpen(delete_file(mem, remote_file))
    /\ spc' = "writing"
    /\ call' = [NoCall EXCEPT !.op = "delete_file", !.file = remote_file]
    /\ ret' = NoRet
    /\ now' = now
    /\ StoreFrame

SRestoreFromAmazon(amaozn_data) ==
    /\ spc = "ready"
    /\ WriteOpen(restore_from_amazon(mem, amaozn_data))
    /\ spc' = "writing"
    /\ call' = [NoCall EXCEPT !.op = "restore_from_amazon", !.data = amaozn_data]
    /\ ret' = NoRet
    /\ now' = now
    /\ StoreFrame

SAddPendingJob(job) ==
    /\ spc = "ready"
    /\ Len(mem.pending_jobs) < MaxJobs
    /\ Len(mem.files) + Len(mem.pending_jobs) < MaxEntries
    /\ WriteOpen(add_pending_job(mem, job))
    /\ spc' = "writing"
    /\ call' = [NoCall EXCEPT !.op = "add_pending_job", !.job = job]
    /\ ret' = NoRet
    /\ now' = now
    /\ StoreFrame

SDeletePendingJob(job) ==
    /\ spc = "ready"
    /\ WriteOpen(delete_pending_job(mem, job))
    /\ spc' = "writing"
    /\ call' = [NoCall EXCEPT !.op = "delete_pending_job", !.job = job]
    /\ ret' = NoRet
    /\ now' = now
    /\ StoreFrame

\* write() called on its own, as _create_empty_db does
SWrite ==
    /\ spc = "ready"
    /\ WriteOpen(mem)
    /\ spc' = "writing"
    /\ call' = [NoCall EXCEPT !.op = "write"]
    /\ ret' = NoRet
    /\ now' = now
    /\ StoreFrame

\* the write() of the method in progress runs to its end
SWriteFinish ==
    /\ spc = "writing"
    /\ WriteClose
    /\ spc' = IF Serializable(mem) THEN "ready" ELSE "raised"
    /\ call' = NoCall
    /\ UNCHANGED <<ret, now>>
    /\ StoreFrame

\* set(self.localdatabase.pending_jobs)
SPendingJobs ==
    /\ spc = "ready"
    /\ ret' = PendingJobs(mem)
    /\ call' = [NoCall EXCEPT !.op = "pending_jobs"]
    /\ UNCHANGED <<mem, disk, spc, now>>
    /\ StoreFrame

\* the process dies; the instance is gone, the file stays as it is
SCrash ==
    /\ spc \in {"ready", "writing"}
    /\ spc' = "crashed"
    /\ mem' = NoMem
    /\ call' = NoCall
    /\ ret' = NoRet
    /\ UNCHANGED <<disk, now>>
    /\ StoreFrame

\* a test run is short: the clock reads the same throughout
StoreInit == InitEnv /\ InitRemote /\ InitDb /\ InitSync /\ InitStore /\ InitDiff

StoreNext ==
    \/ SConstruct
    \/ \E f \in TestFiles, u \in TestUuids : SAddFile(f, u)
    \/ \E u \in TestUuids : SDeleteFile(Struct("", 0, u))
    \/ \E data \in Inventories : SRestoreFromAmazon(data)
    \/ \E j \in TestJobs : SAddPendingJob(j)
    \/ \E j \in TestJobs : SDeletePendingJob(j)
    \/ SWrite
    \/ SWriteFinish
    \/ SPendingJobs
    \/ SCrash

StoreSpec == StoreInit /\ [][StoreNext]_vars

\* ------------------------------------ DiffSpec: the differs on bounded inputs
DiffFrame == UNCHANGED <<localfs, now, vault, nextId, glacierJobs, mem, disk, pc, diff, cur, storeVars>>

\* epoch seconds a database entry can hold
Secs == {timegm(fromtimestamp(t)) : t \in Ticks}

\* listings of a local directory tree whose files all exist
LocalListings == UNION {[1..n -> {LocalFile(p) : p \in Paths}] : n \in 0..MaxListing}

\* listings of a database: the i-th entry carries archive id i
RemoteShapes == UNION {[1..n -> Paths \X Secs] : n \in 0..MaxListing}
RemoteListing(shape) ==
    [i \in DOMAIN shape |->
        RemoteFile([path |-> shape[i][1], last_modified |-> JInt(shape[i][2]),
                    uploaded_at |-> JInt(shape[i][2]), uuid |-> i])]

DifferLists == UNION {[1..n -> Differs] : n \in 0..MaxDiffers}

DiffInit ==
    /\ localfs \in [Paths -> Ticks]
    /\ now = 0
    /\ InitRemote /\ InitDb /\ InitSync /\ InitStore
    /\ dLocalFiles \in LocalListings
    /\ dRemoteFiles \in {RemoteListing(shape) : shape \in RemoteShapes}
    /\ dDiffers = <<>>
    /\ dOut = NoOut

\* SimpleDiffer(set(local), set(remote)).differences
RunSimpleDiffer ==
    /\ dOut = NoOut
    /\ dOut' = [fn |-> "SimpleDiffer",
                result |-> SimpleDiffer(PySet(dLocalFiles), PySet(dRemoteFiles))]
    /\ UNCHANGED <<dLocalFiles, dRemoteFiles, dDiffers>>
    /\ DiffFrame

\* LastModifiedDiffer(local_file, remote_file).local_is_modified
RunLastModifiedDiffer ==
    \E i \in DOMAIN dLocalFiles, j \in DOMAIN dRemoteFiles :
        /\ dOut = NoOut
        /\ dOut' = [fn |-> "LastModifiedDiffer",
                    result |-> [local_file |-> dLocalFiles[i],
                                remote_file |-> dRemoteFiles[j],
                                local_is_modified |->
                                    LastModifiedDiffer(dLocalFiles[i], dRemoteFiles[j])]]
        /\ UNCHANGED <<dLocalFiles, dRemoteFiles, dDiffers>>
        /\ DiffFrame

\* DifferRunner(local_filesystem, remote_filesystem, differs).differences
RunDifferRunner ==
    \E differs \in DifferLists :
        /\ dOut = NoOut
        /\ dDiffers' = differs
        /\ dOut' = [fn |-> "DifferRunner",
                    result |-> DifferRunner(dLocalFiles, dRemoteFiles, differs)]
        /\ UNCHANGED <<dLocalFiles, dRemoteFiles>>
        /\ DiffFrame

DiffNext ==
    \/ RunSimpleDiffer
    \/ RunLastModifiedDiffer
    \/ RunDifferRunner

DiffSpec == DiffInit /\ [][DiffNext]_vars

\* ------------------------------------ FileSpec: File records compared in pairs
\* the records of both listings
ListingRecords ==
    {dLocalFiles[i] : i \in DOMAIN dLocalFiles} \cup {dRemoteFiles[j] : j \in DOMAIN dRemoteFiles}

\* self == other, hash(self), hash(other), self > other for two records of
\* the listings, of either variant
RunFileCompare ==
    \E self \in ListingRecords, other \in ListingRecords :
        /\ dOut = NoOut
        /\ dOut' = [fn |-> "File",
                    result |-> [self |-> self, other |-> other,
                                eq |-> FileEq(self, other),
                                gt |-> FileGt(self, other),
                                hash_self |-> FileHash(self),
                                hash_other |-> FileHash(other)]]
        /\ UNCHANGED <<dLocalFiles, dRemoteFiles, dDiffers>>
        /\ DiffFrame

FileSpec == DiffInit /\ [][RunFileCompare]_vars

\* C22: two file records are equal exactly when their paths are equal,
\* whatever their variant, timestamp or archive id; equal records have equal
\* hashes; self > other holds exactly when self's last_modified is the later
\* one, whatever the paths.
C22_EqualByPathOrderedByTime ==
    dOut.fn = "File" =>
        LET r == dOut.result
        IN /\ r.eq <=> (Path(r.self) = Path(r.other))
           /\ r.eq => r.hash_self = r.hash_other
           /\ r.gt <=> (LastModified(r.self) > LastModified(r.other))

\* a local record equal to its remote counterpart and newer than it
C22_Witness ==
    /\ dOut.fn = "File"
    /\ dOut.result.self.variant = "local"
    /\ dOut.result.other.variant = "remote"
    /\ dOut.result.eq
    /\ dOut.result.gt
    /\ Uuid(dOut.result.other) = 2

\* ------------------------------------------------- properties of the differs
ListingPaths(listing) == {Path(listing[i]) : i \in DOMAIN listing}
SharedPaths == ListingPaths(dLocalFiles) \cap ListingPaths(dRemoteFiles)
PathsOf(files) == {Path(f) : f \in files}

\* C2: SimpleDiffer.differences returns as new_files the local records whose
\* path matches no remote record and as deleted_files the remote records
\* whose path matches no local record; against an empty remote side
\* everything is new, against an empty local side everything is deleted.
C2_NewAndDeletedByPath ==
    dOut.fn = "SimpleDiffer" =>
        LET local == PySet(dLocalFiles)
            remote == PySet(dRemoteFiles)
            res == dOut.result
        IN /\ res.new_files = {l \in local : Path(l) \notin ListingPaths(dRemoteFiles)}
           /\ res.deleted_files = {r \in remote : Path(r) \notin ListingPaths(dLocalFiles)}
           /\ remote = {} =>
                res.new_files = local /\ res.deleted_files = {}
                    /\ res.maybe_modified_files = {}
           /\ local = {} =>
                res.new_files = {} /\ res.deleted_files = remote
                    /\ res.maybe_modified_files = {}

C2_Witness ==
    /\ dOut.fn = "SimpleDiffer"
    /\ dOut.result.new_files # {}
    /\ dOut.result.deleted_files # {}

\* C3: maybe_modified_files holds exactly one pair (l, r) per path present on
\* both sides, l from local and r from remote, and no pair for a path on one
\* side only; equal identities on both sides give one pair per element and
\* nothing new or deleted.
C3_OnePairPerSharedPath ==
    dOut.fn = "SimpleDiffer" =>
        LET local == PySet(dLocalFiles)
            remote == PySet(dRemoteFiles)
            mm == dOut.result.maybe_modified_files
            pairsOf(p) == {pr \in mm : Path(pr[1]) = p \/ Path(pr[2]) = p}
        IN /\ \A p \in Paths :
                Cardinality(pairsOf(p)) = IF p \in SharedPaths THEN 1 ELSE 0
           /\ \A pr \in mm :
                pr[1] \in local /\ pr[2] \in remote /\ Path(pr[1]) = Path(pr[2])
           /\ ListingPaths(dLocalFiles) = ListingPaths(dRemoteFiles) =>
                /\ dOut.result.new_files = {}
                /\ dOut.result.deleted_files = {}
                /\ Cardinality(mm) = Cardinality(local)

C3_Witness ==
    /\ dOut.fn = "SimpleDiffer"
    /\ Cardinality(dOut.result.maybe_modified_files) = 1
    /\ dOut.result.new_files # {}
    /\ Len(dRemoteFiles) = 2

\* C4: LastModifiedDiffer.local_is_modified is true exactly when the local
\* record's last_modified is strictly greater than the remote record's; equal
\* or older local timestamps are not flagged.
C4_StrictlyNewer ==
    dOut.fn = "LastModifiedDiffer" =>
        LET l == fromtimestamp(localfs[dOut.result.local_file.path])
            r == utcfromtimestamp(dOut.result.remote_file.file_json_data.last_modified.v)
        IN /\ dOut.result.local_is_modified <=> l > r
           /\ l <= r => ~dOut.result.local_is_modified

C4_Witness ==
    /\ dOut.fn = "LastModifiedDiffer"
    /\ LastModified(dOut.result.local_file) = LastModified(dOut.result.remote_file)
    /\ ~dOut.result.local_is_modified

\* what each differ class answers for a pair
Flags(differ, pr) ==
    \/ differ = "LastModifiedDiffer" /\ LastModified(pr[1]) > LastModified(pr[2])
    \/ differ = "DifferForDifferRunnerTest" /\ Path(pr[1]) = FlaggedPath
            /\ Path(pr[2]) = FlaggedPath

FlaggedBySome(pr) == \E i \in DOMAIN dDiffers : Flags(dDiffers[i], pr)

\* C5: DifferRunner.differences returns as modified_files exactly the
\* maybe_modified pairs that at least one configured differ flags (none with
\* an empty differ list); a pair no differ flags is in none of the three
\* sets; new_files and deleted_files are those of SimpleDiffer.
C5_ModifiedIsFlaggedBySome ==
    dOut.fn = "DifferRunner" =>
        LET simple == SimpleDiffer(PySet(dLocalFiles), PySet(dRemoteFiles))
            res == dOut.result
        IN /\ res.modified_files = {pr \in simple.maybe_modified_files : FlaggedBySome(pr)}
           /\ dDiffers = <<>> => res.modified_files = {}
           /\ \A pr \in simple.maybe_modified_files :
                ~FlaggedBySome(pr) =>
                    /\ pr \notin res.modified_files
                    /\ Path(pr[1]) \notin PathsOf(res.new_files)
                    /\ Path(pr[2]) \notin PathsOf(res.deleted_files)
           /\ res.new_files = simple.new_files
           /\ res.deleted_files = simple.deleted_files

C5_Witness ==
    /\ dOut.fn = "DifferRunner"
    /\ Len(dDiffers) = 2
    /\ dDiffers[1] # dDiffers[2]
    /\ \E pr \in dOut.result.modified_files :
            Flags(dDiffers[1], pr) /\ ~Flags(dDiffers[2], pr)
    /\ \E pr \in SimpleDiffer(PySet(dLocalFiles), PySet(dRemoteFiles)).maybe_modified_files :
            pr \notin dOut.result.modified_files

\* ----------------------- RunnerSpec: DifferRunner with the differs it builds
\* DifferRunner(...).differences, and the differ objects made on the way
RunDifferRunnerInstances ==
    \E differs \in DifferLists :
        /\ dOut = NoOut
        /\ dDiffers' = differs
        /\ dOut' = [fn |-> "DifferRunner.instances",
                    result |-> [differences |-> DifferRunner(dLocalFiles, dRemoteFiles, differs),
                                instances |-> DifferInstances(dLocalFiles, dRemoteFiles, differs)]]
        /\ UNCHANGED <<dLocalFiles, dRemoteFiles>>
        /\ DiffFrame

RunnerSpec == DiffInit /\ [][RunDifferRunnerInstances]_vars

\* C25: DifferRunner.differences constructs and evaluates a differ only on
\* pairs of maybe_modified_files, one object for each pair and each differ of
\* the list; no differ is given a record of new_files or deleted_files, and
\* no such record gets into modified_files.
C25_DiffersOnlyOnPairs ==
    dOut.fn = "DifferRunner.instances" =>
        LET simple == SimpleDiffer(PySet(dLocalFiles), PySet(dRemoteFiles))
            res == dOut.result.differences
            made == dOut.result.instances
        IN /\ \A d \in made :
                /\ d.pair \in simple.maybe_modified_files
                /\ d.pair[1] \notin res.new_files
                /\ d.pair[2] \notin res.deleted_files
                /\ Path(d.pair[1]) \notin PathsOf(res.new_files)
                /\ Path(d.pair[2]) \notin PathsOf(res.deleted_files)
           /\ Cardinality(made) = Cardinality(simple.maybe_modified_files) * Len(dDiffers)
           /\ res.modified_files =
                {d.pair : d \in {e \in made :
                    local_is_modified(dDiffers[e.differ], e.pair[1], e.pair[2])}}
           /\ \A pr \in res.modified_files :
                /\ pr[1] \notin res.new_files
                /\ pr[2] \notin res.deleted_files

\* two differs made for one pair, a new record next to it that the test
\* differ would flag
C25_Witness ==
    /\ dOut.fn = "DifferRunner.instances"
    /\ Cardinality(dOut.result.instances) = 2
    /\ FlaggedPath \in PathsOf(dOut.result.differences.new_files)
    /\ dOut.result.differences.modified_files # {}
    /\ \E i \in DOMAIN dDiffers : dDiffers[i] = "DifferForDifferRunnerTest"

\* --------------------------------------------------- properties of the store
Mutators == {"add_file", "delete_file", "add_pending_job", "delete_pending_job",
             "restore_from_amazon"}

\* a method was called in this step / the method in progress returned in it
Called(op) == spc = "ready" /\ spc' = "writing" /\ call'.op = op
Returned(op) == spc = "writing" /\ spc' = "ready" /\ call.op = op

\* a fresh instance was constructed, in this step, next to a live one
Reloaded == spc = "ready" /\ spc' = "ready" /\ call'.op = "__init__"

\* C6: when a mutator (add_file, delete_file, add_pending_job,
\* delete_pending_job, restore_from_amazon) returns, the backing file holds a
\* document from which a reload reconstructs the in-memory files and
\* pending_jobs.
C6_FileEqualsMemoryOnReturn ==
    [][\A op \in Mutators :
        Returned(op) =>
            /\ disk'.kind = "doc"
            /\ disk'.files = mem'.files
            /\ disk'.pending_jobs = mem'.pending_jobs
            /\ DatabaseInit(disk') = mem']_vars

C6_Witness ==
    /\ spc = "ready"
    /\ call = NoCall
    /\ Len(mem.files) = 1
    /\ Len(mem.pending_jobs) = 2
    /\ disk.kind = "doc"

\* C7: in every reachable state, a crash inside write() included, the backing
\* file is a complete parseable document (or does not exist yet); a load
\* after a crash never meets a truncated or partly written file.
C7_FileAlwaysLoadable ==
    spc = "crashed" => disk.kind \in {"absent", "doc"}

\* the datetime d without its sub-second part
WholeSeconds(d) == d - (d % TicksPerSec)

\* add_file appended one entry carrying the given path and uuid, and lm as
\* its last_modified, behind the entries already there
Appended(lm) ==
    LET before == Files(mem)
        after == Files(mem')
    IN /\ Len(after) = Len(before) + 1
       /\ \A i \in DOMAIN before : after[i] = before[i]
       /\ Path(after[Len(after)]) = call'.file.path
       /\ Uuid(after[Len(after)]) = call'.file.uuid
       /\ LastModified(after[Len(after)]) = lm

\* a reload, when the method returns or later, reads the same files back
SameFilesAfterReload ==
    /\ Returned("add_file") =>
            DatabaseInit(disk') # NoMem /\ Files(DatabaseInit(disk')) = Files(mem)
    /\ Reloaded => Files(mem') = Files(mem)

\* C8 as stated: the files read back are the added entries in insertion
\* order, each with the path, last_modified and uuid given to add_file, before
\* and after a reload.
C8_AddedEntriesReadBack ==
    [][/\ Called("add_file") => Appended(call'.file.last_modified)
       /\ SameFilesAfterReload]_vars

\* C8 amended: the files read back are the added entries in insertion order,
\* each with the path and uuid given to add_file and with the given
\* last_modified cut to whole seconds, before and after a reload.
C8_AddedEntriesReadBackInSeconds ==
    [][/\ Called("add_file") => Appended(WholeSeconds(call'.file.last_modified))
       /\ SameFilesAfterReload]_vars

C8_Witness ==
    /\ spc = "ready"
    /\ call.op = "__init__"
    /\ Len(mem.files) = 2
    /\ mem.files[1] # mem.files[2]

IsSubsequence(short, long) ==
    \E f \in [DOMAIN short -> DOMAIN long] :
        /\ \A i, j \in DOMAIN short : i < j => f[i] < f[j]
        /\ \A i \in DOMAIN short : long[f[i]] = short[i]

\* C9: delete_file(r) removes from files the entries whose uuid is r.uuid and
\* nothing else: the others stay, in their order; an absent uuid leaves files
\* as it was; a reload after the call reads the same files.
C9_DeleteFileByUuidOnly ==
    [][/\ Called("delete_file") =>
            LET u == call'.file.uuid
                others == {i \in DOMAIN mem.files : mem.files[i].uuid # u}
            IN /\ \A i \in DOMAIN mem'.files : mem'.files[i].uuid # u
               /\ Len(mem'.files) = Cardinality(others)
               /\ IsSubsequence(mem'.files, mem.files)
               /\ others = DOMAIN mem.files => mem'.files = mem.files
       /\ Returned("delete_file") =>
            DatabaseInit(disk') # NoMem /\ DatabaseInit(disk').files = mem.files]_vars

C9_Witness ==
    /\ spc = "writing"
    /\ call.op = "delete_file"
    /\ Len(mem.files) = 1
    /\ mem.files[1].uuid # call.file.uuid

RecognizedKinds == {"PendingJob", "RetreiveInvetoryJob"}

\* C10: when the persisted pending_jobs holds an entry whose __job_type is not
\* a recognized kind, enumerating pending_jobs raises InvalidJobTypeException
\* and no job object is made for an unrecognized entry.
C10_UnknownJobTypeRaises ==
    (call.op = "pending_jobs" /\ disk.kind = "doc") =>
        LET unknown == {i \in DOMAIN disk.pending_jobs :
                            disk.pending_jobs[i].job_type \notin RecognizedKinds}
        IN /\ unknown # {} =>
                /\ ret.exc = "InvalidJobTypeException"
                /\ \A i \in unknown : Len(ret.jobs) < i
           /\ \A k \in DOMAIN ret.jobs : ret.jobs[k].class \in RecognizedKinds

C10_Witness ==
    /\ call.op = "pending_jobs"
    /\ ret.exc = "InvalidJobTypeException"
    /\ Len(ret.jobs) = 1
    /\ Len(mem.pending_jobs) = 2

\* C11: constructing the store when the backing file is absent is not an
\* error: the instance is there, its files and pending_jobs are both empty,
\* enumerating them yields nothing, and no file is created.
C11_AbsentFileGivesEmptyStore ==
    [][(call'.op = "__init__" /\ disk.kind = "absent") =>
            /\ spc' = "ready"
            /\ mem' # NoMem
            /\ mem'.files = <<>>
            /\ mem'.pending_jobs = <<>>
            /\ Files(mem') = <<>>
            /\ PendingJobs(mem') = [jobs |-> <<>>, exc |-> "none"]
            /\ disk' = disk]_vars

C11_Witness ==
    /\ spc = "ready"
    /\ call.op = "__init__"
    /\ disk.kind = "absent"
    /\ mem = EmptyData

\* every entry of pending_jobs is of a recognized kind
AllRecognized(filedata) ==
    \A i \in DOMAIN filedata.pending_jobs :
        filedata.pending_jobs[i].job_type \in RecognizedKinds

\* the jobs an enumeration of pending_jobs yields, identified by uuid
EnumeratedUuids(filedata) ==
    {PendingJobs(filedata).jobs[i].uuid : i \in DOMAIN PendingJobs(filedata).jobs}

\* C20: with recognized job kinds, add_pending_job(j) appends an entry with
\* j's uuid and kind, delete_pending_job(j) removes the entries whose uuid is
\* j.uuid and leaves the others in place with their kind, so that the jobs
\* enumerated (by uuid) are those added and not deleted; a reload, when the
\* method returns or later, reads the same pending_jobs, and an enumeration
\* yields one job per entry, of the entry's kind and uuid.
C20_PendingJobsAddedNotDeleted ==
    /\ [][ /\ (Called("add_pending_job") /\ call'.job.class \in RecognizedKinds) =>
                /\ mem'.pending_jobs =
                        Append(mem.pending_jobs,
                               [job_type |-> call'.job.class, uuid |-> call'.job.uuid])
                /\ mem'.files = mem.files
                /\ (AllRecognized(mem) =>
                        EnumeratedUuids(mem') = EnumeratedUuids(mem) \cup {call'.job.uuid})
           /\ Called("delete_pending_job") =>
                LET u == call'.job.uuid
                    others == {i \in DOMAIN mem.pending_jobs : mem.pending_jobs[i].uuid # u}
                IN /\ \A i \in DOMAIN mem'.pending_jobs : mem'.pending_jobs[i].uuid # u
                   /\ Len(mem'.pending_jobs) = Cardinality(others)
                   /\ IsSubsequence(mem'.pending_jobs, mem.pending_jobs)
                   /\ mem'.files = mem.files
                   /\ (AllRecognized(mem) =>
                        EnumeratedUuids(mem') = EnumeratedUuids(mem) \ {u})
           /\ \A op \in {"add_pending_job", "delete_pending_job"} :
                Returned(op) =>
                    /\ DatabaseInit(disk') # NoMem
                    /\ DatabaseInit(disk').pending_jobs = mem.pending_jobs
           /\ Reloaded => mem'.pending_jobs = mem.pending_jobs]_vars
    /\ []((call.op = "pending_jobs" /\ AllRecognized(mem)) =>
            /\ ret.exc = "none"
            /\ DOMAIN ret.jobs = DOMAIN mem.pending_jobs
            /\ \A i \in DOMAIN ret.jobs :
                    ret.jobs[i] = JobObject(mem.pending_jobs[i].job_type,
                                            mem.pending_jobs[i].uuid))

\* a delete that left a RetreiveInvetoryJob of another uuid in place
C20_Witness ==
    /\ spc = "writing"
    /\ call.op = "delete_pending_job"
    /\ Len(mem.pending_jobs) = 1
    /\ mem.pending_jobs[1].job_type = "RetreiveInvetoryJob"
    /\ mem.pending_jobs[1].uuid # call.job.uuid
    /\ Len(mem.files) = 1

FileMutators == {"add_file", "delete_file", "restore_from_amazon"}
JobMutators == {"add_pending_job", "delete_pending_job"}

\* the write() of the method in progress came to its end in this step, by
\* returning or by raising
Ended(op) == spc = "writing" /\ spc' \in {"ready", "raised"} /\ call.op = op

\* C28: add_file, delete_file and restore_from_amazon leave pending_jobs as
\* it was, add_pending_job and delete_pending_job leave files as it was, in
\* memory and in the document the backing file holds after the call.
C28_FilesAndJobsDoNotInterfere ==
    [][/\ \A op \in FileMutators :
            /\ Called(op) => mem'.pending_jobs = mem.pending_jobs
            /\ Ended(op) => (disk'.kind = "doc" /\ disk'.pending_jobs = mem.pending_jobs)
       /\ \A op \in JobMutators :
            /\ Called(op) => mem'.files = mem.files
            /\ Ended(op) => (disk'.kind = "doc" /\ disk'.files = mem.files)]_vars

\* ------------------------- FaultSpec: the store on a file that fails to read
\* __init__ when file(self.filename, 'r') or db_file.read() raises IOError on
\* a file that exists (EACCES, EISDIR, EMFILE, EIO): the except clause takes
\* it for a missing file
SConstructIOError ==
    /\ spc \in {"new", "ready", "raised", "crashed", "exited"}
    /\ disk.kind # "absent"
    /\ mem' = EmptyData
    /\ disk' = disk
    /\ spc' = "ready"
    /\ call' = [NoCall EXCEPT !.op = "__init__:IOError"]
    /\ ret' = NoRet
    /\ now' = now
    /\ StoreFrame

FaultNext ==
    \/ StoreNext
    \/ SConstructIOError

FaultSpec == StoreInit /\ [][FaultNext]_vars

\* C12: when the backing file exists and cannot be read, or is not a store
\* document, the construction fails and leaves no instance; the store is not
\* set to empty collections, so every mutator that starts to write runs on an
\* instance holding what the backing file holds.
C12_UnusableFileHalts ==
    [][/\ (/\ call'.op \in {"__init__", "__init__:IOError"}
           /\ (disk.kind = "partial" \/ call'.op = "__init__:IOError"))
            => (spc' = "raised" /\ mem' = NoMem)
       /\ (spc = "ready" /\ spc' = "writing") => mem = DatabaseInit(disk)]_vars

\* ------------------------------------------------ Spec: the GlacierSync process
SyncFrame == UNCHANGED <<glacierJobs, storeVars, diffVars>>

\* LocalFilesystem.files: the regular files of the synced directories
LocalListing ==
    LET present == {p \in Paths : localfs[p] # NoFile}
        order == CHOOSE f \in [1..Cardinality(present) -> present] :
                    \A i, j \in DOMAIN f : i # j => f[i] # f[j]
    IN [i \in DOMAIN order |-> LocalFile(order[i])]

\* the archives of the vault uploaded for path p
ArchivesFor(p) == {a \in vault : a.description = p}

\* sync() calling delete_file before upload_file for a modified pair
RemoteCallsDeleteFirst(kind) ==
    CASE kind = "new" -> <<"upload_file">>
      [] kind = "deleted" -> <<"delete_file">>
      [] OTHER -> <<"delete_file", "upload_file">>

\* the RemoteFilesystem calls sync() makes for one element of each loop
RemoteCalls(kind) ==
    CASE kind = "new" -> <<"upload_file">>
      [] kind = "deleted" -> <<"delete_file">>
      [] OTHER -> <<"upload_file", "delete_file">>

\* the loops run one after the other: new_files, deleted_files, modified_files
Remaining(d) == d.new_files # {} \/ d.deleted_files # {} \/ d.modified_files # {}

\* the clock advances
Tick ==
    /\ now < MaxNow
    /\ now' = now + 1
    /\ UNCHANGED <<localfs, vault, nextId, mem, disk, pc, diff, cur>>
    /\ SyncFrame

\* somebody writes a local file: it gets the current time as its mtime
LocalWrite(p) ==
    /\ localfs[p] # now
    /\ localfs' = [localfs EXCEPT ![p] = now]
    /\ UNCHANGED <<now, vault, nextId, mem, disk, pc, diff, cur>>
    /\ SyncFrame

\* somebody removes a local file
LocalDelete(p) ==
    /\ localfs[p] # NoFile
    /\ localfs' = [localfs EXCEPT ![p] = NoFile]
    /\ UNCHANGED <<now, vault, nextId, mem, disk, pc, diff, cur>>
    /\ SyncFrame

\* GlacierSync.__init__ of a new run of the program, the previous one having
\* ended: the database file is loaded; a file that does not parse ends the
\* process with ValueError
Construct ==
    /\ pc \in {"down", "aborted", "done"}
    /\ mem' = DatabaseInit(disk)
    /\ pc' = IF DatabaseInit(disk) = NoMem THEN "halted" ELSE "idle"
    /\ diff' = NoDiff
    /\ cur' = NoCur
    /\ UNCHANGED <<localfs, now, vault, nextId, disk>>
    /\ SyncFrame

\* sync() taking every database record for deleted
SyncDifferencesAllDeleted ==
    /\ pc = "idle"
    /\ diff' = [DifferRunner(LocalListing, Files(mem), <<"LastModifiedDiffer">>)
                    EXCEPT !.deleted_files = PySet(Files(mem))]
    /\ pc' = "loop"
    /\ UNCHANGED <<localfs, now, vault, nextId, mem, disk, cur>>
    /\ SyncFrame

\* sync(): DifferRunner(...).differences
SyncDifferences ==
    /\ pc = "idle"
    /\ diff' = DifferRunner(LocalListing, Files(mem), <<"LastModifiedDiffer">>)
    /\ pc' = "loop"
    /\ UNCHANGED <<localfs, now, vault, nextId, mem, disk, cur>>
    /\ SyncFrame

\* the for loops: the next element, in the order set iteration yields it
SyncNextNew ==
    /\ pc = "loop"
    /\ \E curr_file \in diff.new_files :
        /\ cur' = [NoCur EXCEPT !.kind = "new", !.file = curr_file, !.step = 1]
        /\ diff' = [diff EXCEPT !.new_files = @ \ {curr_file}]
    /\ pc' = "call"
    /\ UNCHANGED <<localfs, now, vault, nextId, mem, disk>>
    /\ SyncFrame

SyncNextDeleted ==
    /\ pc = "loop"
    /\ diff.new_files = {}
    /\ \E curr_file \in diff.deleted_files :
        /\ cur' = [NoCur EXCEPT !.kind = "deleted", !.old = curr_file, !.step = 1]
        /\ diff' = [diff EXCEPT !.deleted_files = @ \ {curr_file}]
    /\ pc' = "call"
    /\ UNCHANGED <<localfs, now, vault, nextId, mem, disk>>
    /\ SyncFrame

SyncNextModified ==
    /\ pc = "loop"
    /\ diff.new_files = {}
    /\ diff.deleted_files = {}
    /\ \E curr_file \in diff.modified_files :
        /\ cur' = [NoCur EXCEPT !.kind = "modified", !.file = curr_file[1],
                                !.old = curr_file[2], !.step = 1]
        /\ diff' = [diff EXCEPT !.modified_files = @ \ {curr_file}]
    /\ pc' = "call"
    /\ UNCHANGED <<localfs, now, vault, nextId, mem, disk>>
    /\ SyncFrame

\* sync() returns
SyncReturn ==
    /\ pc = "loop"
    /\ ~Remaining(diff)
    /\ pc' = "done"
    /\ UNCHANGED <<localfs, now, vault, nextId, mem, disk, diff, cur>>
    /\ SyncFrame

\* upload_file, first half: vault.concurrent_create_archive_from_file
UploadArchive ==
    /\ pc = "call"
    /\ RemoteCalls(cur.kind)[cur.step] = "upload_file"
    /\ localfs[cur.file.path] # NoFile
    /\ nextId <= MaxArchives
    /\ vault' = vault \cup {[id |-> nextId, description |-> cur.file.path]}
    /\ nextId' = nextId + 1
    /\ cur' = [cur EXCEPT !.uuid = nextId]
    /\ pc' = "add_file"
    /\ UNCHANGED <<localfs, now, mem, disk, diff>>
    /\ SyncFrame

\* upload_file, second half: glacier_local_database.add_file up to the
\* opening of the file in write(); os.path.getmtime raises OSError when the
\* local file is gone
DatabaseAddFile ==
    /\ pc = "add_file"
    /\ IF localfs[cur.file.path] = NoFile
       THEN /\ pc' = "aborted"
            /\ mem' = NoMem
            /\ diff' = NoDiff
            /\ cur' = NoCur
            /\ disk' = disk
       ELSE /\ WriteOpen(add_file(mem, cur.file, cur.uuid, now))
            /\ pc' = "write"
            /\ UNCHANGED <<diff, cur>>
    /\ UNCHANGED <<localfs, now, vault, nextId>>
    /\ SyncFrame

\* delete_file leaving the archive in the vault
DeleteArchiveKept ==
    /\ pc = "call"
    /\ RemoteCalls(cur.kind)[cur.step] = "delete_file"
    /\ vault' = vault
    /\ pc' = "delete_file"
    /\ UNCHANGED <<localfs, now, nextId, mem, disk, diff, cur>>
    /\ SyncFrame

\* delete_file, first half: vault.delete_archive
DeleteArchive ==
    /\ pc = "call"
    /\ RemoteCalls(cur.kind)[cur.step] = "delete_file"
    /\ vault' = {a \in vault : a.id # Uuid(cur.old)}
    /\ pc' = "delete_file"
    /\ UNCHANGED <<localfs, now, nextId, mem, disk, diff, cur>>
    /\ SyncFrame

\* delete_file, second half: glacier_local_database.delete_file up to the
\* opening of the file in write()
DatabaseDeleteFile ==
    /\ pc = "delete_file"
    /\ WriteOpen(delete_file(mem, cur.old))
    /\ pc' = "write"
    /\ UNCHANGED <<localfs, now, vault, nextId, diff, cur>>
    /\ SyncFrame

\* write() runs to its end and the RemoteFilesystem call returns
DatabaseWritten ==
    /\ pc = "write"
    /\ WriteClose
    /\ IF cur.step < Len(RemoteCalls(cur.kind))
       THEN pc' = "call" /\ cur' = [cur EXCEPT !.step = @ + 1]
       ELSE pc' = "loop" /\ cur' = NoCur
    /\ UNCHANGED <<localfs, now, vault, nextId, diff>>
    /\ SyncFrame

\* the vault call raises after the backing file has been opened for writing
RemoteFailureTruncating ==
    /\ pc = "call"
    /\ pc' = "aborted"
    /\ mem' = NoMem
    /\ diff' = NoDiff
    /\ cur' = NoCur
    /\ disk' = Partial
    /\ UNCHANGED <<localfs, now, vault, nextId>>
    /\ SyncFrame

\* the vault call raises (network, or the file to upload is gone); nothing
\* catches it and the process ends
RemoteFailure ==
    /\ pc = "call"
    /\ pc' = "aborted"
    /\ mem' = NoMem
    /\ diff' = NoDiff
    /\ cur' = NoCur
    /\ UNCHANGED <<localfs, now, vault, nextId, disk>>
    /\ SyncFrame

\* the process is killed, or the machine stops
Crash ==
    /\ pc \in {"idle", "loop", "call", "add_file", "delete_file", "write"}
    /\ pc' = "down"
    /\ mem' = NoMem
    /\ diff' = NoDiff
    /\ cur' = NoCur
    /\ UNCHANGED <<localfs, now, vault, nextId, disk>>
    /\ SyncFrame

Init == InitEnv /\ InitRemote /\ InitDb /\ InitSync /\ InitStore /\ InitDiff

Next ==
    \/ Tick
    \/ \E p \in Paths : LocalWrite(p)
    \/ \E p \in Paths : LocalDelete(p)
    \/ Construct
    \/ SyncDifferences
    \/ SyncNextNew
    \/ SyncNextDeleted
    \/ SyncNextModified
    \/ SyncReturn
    \/ UploadArchive
    \/ DatabaseAddFile
    \/ DeleteArchive
    \/ DatabaseDeleteFile
    \/ DatabaseWritten
    \/ RemoteFailure
    \/ Crash

Spec == Init /\ [][Next]_vars

\* ------------------------------------------------- properties of sync()
\* sync() is inside the processing of a modified pair and has made the
\* pair's first remote call
PairUnderWay ==
    /\ cur.kind = "modified"
    /\ pc \in {"add_file", "delete_file", "write"} \/ (pc = "call" /\ cur.step > 1)

\* this step issues vault.delete_archive for the old archive of a modified pair
DeleteOfPairIssued ==
    pc = "call" /\ cur.kind = "modified" /\ pc' = "delete_file"

\* the new version of the pair's file is in the vault and its entry is in
\* the backing file
UploadedAndRecorded ==
    /\ cur.uuid # Uuid(cur.old)
    /\ [id |-> cur.uuid, description |-> cur.file.path] \in vault
    /\ disk.kind = "doc"
    /\ \E i \in DOMAIN disk.files :
            disk.files[i].uuid = cur.uuid /\ disk.files[i].path = cur.file.path

Exit ==
    /\ pc = "done"
    /\ pc' = "down"
    /\ mem' = NoMem
    /\ diff' = NoDiff
    /\ cur' = NoCur
    /\ UNCHANGED <<localfs, now, vault, nextId, disk>>
    /\ SyncFrame

\* the local files change only while the program is not running
QuietLocalWrite(p) == pc = "down" /\ LocalWrite(p)
QuietLocalDelete(p) == pc = "down" /\ LocalDelete(p)

PassNext ==
    \/ Tick
    \/ \E p \in Paths : QuietLocalWrite(p)
    \/ \E p \in Paths : QuietLocalDelete(p)
    \/ Construct
    \/ SyncDifferences
    \/ SyncNextNew
    \/ SyncNextDeleted
    \/ SyncNextModified
    \/ SyncReturn
    \/ UploadArchive
    \/ DatabaseAddFile
    \/ DeleteArchive
    \/ DatabaseDeleteFile
    \/ DatabaseWritten
    \/ Exit

PassSpec == Init /\ [][PassNext]_vars

\* the local paths that are files now
PresentPaths == {p \in Paths : localfs[p] # NoFile}

\* the archive a database entry stands for
ArchiveOf(entry) == [id |-> entry.uuid, description |-> entry.path]

\* the entry's file is there and LastModifiedDiffer does not flag it
Unchanged(entry) ==
    /\ localfs[entry.path] # NoFile
    /\ ~LastModifiedDiffer(LocalFile(entry.path), RemoteFile(entry))

\* found in the sequence
InSeq(entry, entries) == \E i \in DOMAIN entries : entries[i] = entry

\* C13: when a sync() that nothing interrupted returns, the paths in the
\* store are the local paths, one entry each, the store is on disk, and the
\* vault holds the entries' archives and no other (the archives of deleted
\* paths and the old archives of modified paths are gone); the entry
\* add_file appends carries the id the upload returned; an entry whose file
\* is unchanged stays as it is.
C13_PassMakesStoreMatchLocal ==
    /\ [](pc = "done" =>
            /\ mem # NoMem
            /\ {mem.files[i].path : i \in DOMAIN mem.files} = PresentPaths
            /\ \A i, j \in DOMAIN mem.files :
                    mem.files[i].path = mem.files[j].path => i = j
            /\ DatabaseInit(disk) = mem
            /\ vault = {ArchiveOf(mem.files[i]) : i \in DOMAIN mem.files})
    /\ [][(pc = "add_file" /\ pc' = "write") =>
            /\ mem'.files = Append(mem.files, mem'.files[Len(mem'.files)])
            /\ ArchiveOf(mem'.files[Len(mem'.files)]) =
                    [id |-> cur.uuid, description |-> cur.file.path]
            /\ ArchiveOf(mem'.files[Len(mem'.files)]) \in vault
            /\ cur.uuid = nextId - 1]_vars
    /\ [][(mem # NoMem /\ mem' # NoMem) =>
            \A i \in DOMAIN mem.files :
                Unchanged(mem.files[i]) => InSeq(mem.files[i], mem'.files)]_vars

\* three uploads and one delete so far, both paths in the store
C13_Witness ==
    /\ pc = "done"
    /\ nextId > 3
    /\ Len(mem.files) = 2
    /\ Cardinality(vault) = 2
    /\ PresentPaths = Paths

\* C14: sync() is idempotent: when a sync() that nothing interrupted has
\* returned and no local file has changed since, the differences a second
\* sync() computes from the backing file are empty, so that it uploads and
\* deletes nothing.
C14_SecondPassFindsNothing ==
    pc = "done" =>
        ~Remaining(DifferRunner(LocalListing, Files(DatabaseInit(disk)),
                                <<"LastModifiedDiffer">>))

\* ------------- RecoverSpec: one crash inside a modified pair, then clean runs
\* the entries of the backing file recorded for path p
EntriesFor(p) ==
    IF disk.kind = "doc" THEN {i \in DOMAIN disk.files : disk.files[i].path = p}
    ELSE {}

\* some path has more than one entry in the backing file
DuplicatePaths == \E p \in Paths : Cardinality(EntriesFor(p)) > 1

\* the local files change only before the crash, between runs
EarlyLocalWrite(p) == pc = "down" /\ ~DuplicatePaths /\ LocalWrite(p)
EarlyLocalDelete(p) == pc = "down" /\ ~DuplicatePaths /\ LocalDelete(p)

\* the process is killed after upload_file of a modified pair has returned
\* and before delete_file is called
CrashBetween ==
    /\ cur.kind = "modified"
    /\ cur.step = 2
    /\ Cardinality(EntriesFor(cur.file.path)) = 2
    /\ pc = "call"
    /\ Crash

\* the steps of the program itself
RecoverRun ==
    \/ Construct
    \/ SyncDifferences
    \/ SyncNextNew
    \/ SyncNextDeleted
    \/ SyncNextModified
    \/ SyncReturn
    \/ UploadArchive
    \/ DatabaseAddFile
    \/ DeleteArchive
    \/ DatabaseDeleteFile
    \/ DatabaseWritten
    \/ Exit

RecoverNext ==
    \/ Tick
    \/ \E p \in Paths : EarlyLocalWrite(p)
    \/ \E p \in Paths : EarlyLocalDelete(p)
    \/ CrashBetween
    \/ RecoverRun

\* the program is run again and again, and a run that is not killed goes on
RecoverSpec == Init /\ [][RecoverNext]_vars /\ WF_vars(RecoverRun)

\* the vault has handed out every archive id of the model and the run waits
\* for one more
ArchiveIdsUsedUp ==
    /\ pc = "call"
    /\ RemoteCalls(cur.kind)[cur.step] = "upload_file"
    /\ nextId > MaxArchives

\* C15: once a crash between the upload and the delete of a modified pair
\* has left two archives and two entries for one path, later runs that
\* nothing interrupts, with the local files left alone, reach a state with
\* one archive and one entry for that path (or use up the archive ids).
C15_DuplicatesCollapse ==
    \A p \in Paths :
        (pc = "down" /\ Cardinality(EntriesFor(p)) = 2 /\ Cardinality(ArchivesFor(p)) = 2)
            ~> \/ Cardinality(EntriesFor(p)) = 1 /\ Cardinality(ArchivesFor(p)) = 1
               \/ ArchiveIdsUsedUp

\* C16: whenever the program is not running, after an interruption at any
\* step included, every entry of the backing file names an archive the vault
\* holds for the entry's path, and every archive of the vault has an entry.
C16_EntriesAndArchivesAgree ==
    (pc = "down" /\ disk.kind # "partial") =>
        LET files == DatabaseInit(disk).files
        IN /\ \A i \in DOMAIN files : ArchiveOf(files[i]) \in vault
           /\ \A a \in vault : \E i \in DOMAIN files : ArchiveOf(files[i]) = a

\* ------------------------------------------ RestoreSpec: GlacierSync.restoredb
\* the entry at which the loop of restoredb stops: the first one that is a
\* RetreiveInvetoryJob or that pending_jobs rejects; 0 when the loop runs out
RestoreDbStop(filedata) ==
    LET entries == filedata.pending_jobs
        stops == {i \in DOMAIN entries :
                    \/ entries[i].job_type \notin JobClasses
                    \/ entries[i].job_type = "RetreiveInvetoryJob"}
    IN IF stops = {} THEN 0 ELSE CHOOSE i \in stops : \A j \in stops : i <= j

\* restoredb(): self._vault.get_job(inventory_job) names a variable bound
\* nowhere, so the first RetreiveInvetoryJob ends the call with NameError,
\* before the vault is asked anything; without such a job the loop runs out
\* and the method returns None
restoredb(filedata) ==
    LET stop == RestoreDbStop(filedata)
    IN CASE stop = 0 -> [jobs |-> <<>>, exc |-> "none", value |-> "None"]
         [] stop # 0 /\ filedata.pending_jobs[stop].job_type = "RetreiveInvetoryJob" ->
                [jobs |-> <<>>, exc |-> "NameError", value |-> "unset"]
         [] OTHER -> [jobs |-> <<>>, exc |-> "InvalidJobTypeException", value |-> "unset"]

\* the program is run with the store loaded and calls restoredb()
RestoreDb ==
    /\ spc = "ready"
    /\ ret' = restoredb(mem)
    /\ spc' = IF restoredb(mem).exc = "none" THEN "exited" ELSE "raised"
    /\ call' = [NoCall EXCEPT !.op = "restoredb"]
    /\ UNCHANGED <<mem, disk, now>>
    /\ StoreFrame

\* Glacier finishes an inventory retrieval job; its output lists archives
JobCompletes(u, inventory) ==
    /\ ~glacierJobs[u].completed
    /\ glacierJobs' = [glacierJobs EXCEPT ![u] = [completed |-> TRUE, ArchiveList |-> inventory]]
    /\ UNCHANGED <<localfs, now, vault, nextId, mem, disk, syncVars, storeVars, diffVars>>

RestoreNext ==
    \/ SConstruct
    \/ \E f \in TestFiles, u \in TestUuids : SAddFile(f, u)
    \/ \E j \in TestJobs : SAddPendingJob(j)
    \/ SWriteFinish
    \/ \E u \in TestUuids, inventory \in Inventories : JobCompletes(u, inventory)
    \/ RestoreDb

RestoreSpec == StoreInit /\ [][RestoreNext]_vars

\* this step is a call of restoredb()
RestoreDbCalled == spc = "ready" /\ spc' # "ready" /\ call'.op = "restoredb"

\* the pending inventory retrieval job restoredb() is to poll
PolledJob == mem.pending_jobs[RestoreDbStop(mem)].uuid
InventoryJobPending ==
    /\ RestoreDbStop(mem) # 0
    /\ mem.pending_jobs[RestoreDbStop(mem)].job_type = "RetreiveInvetoryJob"

\* C17: restoredb() polling a pending inventory retrieval job that the vault
\* reports as not completed returns False and leaves files, pending_jobs and
\* the backing file as they were.
C17_NotCompletedReturnsFalse ==
    [][(RestoreDbCalled /\ InventoryJobPending /\ ~glacierJobs[PolledJob].completed) =>
            /\ ret'.exc = "none"
            /\ ret'.value = "False"
            /\ mem' = mem
            /\ disk' = disk]_vars

\* C18: restoredb() polling a pending inventory retrieval job that has
\* completed replaces files by one entry per archive of the job's output, in
\* its order, with path = ArchiveDescription, uuid = ArchiveId and
\* last_modified = uploaded_at = CreationDate, keeps no other entry, and
\* writes the result.
C18_CompletedReplacesFiles ==
    [][(RestoreDbCalled /\ InventoryJobPending /\ glacierJobs[PolledJob].completed) =>
            LET inventory == glacierJobs[PolledJob].ArchiveList
            IN /\ ret'.exc = "none"
               /\ DOMAIN mem'.files = DOMAIN inventory
               /\ \A i \in DOMAIN inventory :
                    /\ mem'.files[i].path = inventory[i].ArchiveDescription
                    /\ mem'.files[i].uuid = inventory[i].ArchiveId
                    /\ mem'.files[i].uploaded_at = mem'.files[i].last_modified
                    /\ mem'.files[i].last_modified \in
                            {JInt(timegm(parse_ts(inventory[i].CreationDate))),
                             JDateTime(parse_ts(inventory[i].CreationDate))}
               /\ mem'.pending_jobs = mem.pending_jobs
               /\ disk' \in {Partial, JsonDump(mem')}]_vars

\* C19: restoredb() called while no inventory retrieval job is pending asks
\* the vault for one and records the job with add_pending_job, so that a
\* RetreiveInvetoryJob is in pending_jobs afterwards.
C19_RestoreRequestRecorded ==
    [][(/\ RestoreDbCalled
        /\ \A i \in DOMAIN mem.pending_jobs : mem.pending_jobs[i].job_type = "PendingJob")
            => /\ Len(mem'.pending_jobs) = Len(mem.pending_jobs) + 1
               /\ mem'.pending_jobs[Len(mem'.pending_jobs)].job_type = "RetreiveInvetoryJob"
               /\ disk' \in {Partial, JsonDump(mem')}]_vars

\* --------------------------------------------- failures of the vault calls
\* the vault call of the file under way raises in this step
RemoteCallFailed == pc = "call" /\ pc' \notin {"call", "add_file", "delete_file", "down"}

\* C21: when the upload or delete of one file fails, sync() goes on with the
\* files it has not come to yet: the run returns to its loops with every
\* other element of new_files, deleted_files and modified_files still to do.
C21_FailureLeavesOtherFilesToDo ==
    [][(RemoteCallFailed /\ Remaining(diff)) => (pc' = "loop" /\ diff' = diff)]_vars

\* ------------------------------------ a local file rewritten during its upload
\* the entry add_file appends for the file under way when it is called now
EntryUnderWay == add_file(EmptyData, cur.file, cur.uuid, now).files[1]

\* the file under way is rewritten in this step, after the vault has taken
\* its content and before add_file is called
RewrittenDuringUpload ==
    /\ pc = "add_file"
    /\ pc' = "add_file"
    /\ localfs[cur.file.path] # NoFile
    /\ localfs'[cur.file.path] \notin {localfs[cur.file.path], NoFile}

\* C23: the last_modified recorded for an uploaded file is the timestamp
\* read before the upload call: rewriting the file during the upload does
\* not change what add_file records, and the entry recorded is older than
\* the rewritten file, which LastModifiedDiffer flags on the next pass.
C23_TimestampReadBeforeUpload ==
    [][RewrittenDuringUpload =>
        /\ EntryUnderWay'.last_modified = EntryUnderWay.last_modified
        /\ LastModifiedDiffer(cur.file, RemoteFile(EntryUnderWay))']_vars

\* C24: a call of restoredb() is one check that does not wait: with any
\* number of jobs queued, it polls one pending inventory retrieval job once
\* and returns, with False (not ready) or True (restored).
C24_OnePollThenReturn ==
    [][(RestoreDbCalled /\ InventoryJobPending) =>
            /\ spc' = "exited"
            /\ ret'.exc = "none"
            /\ ret'.value \in {"False", "True"}]_vars

\* C26: the store is changed only after the vault call has succeeded: a
\* failed upload or delete leaves the backing file as it is and changes no
\* entry in memory; an entry is added only for an archive the vault holds,
\* and removed only when its archive is gone from the vault.
C26_StoreChangesAfterRemoteSuccess ==
    /\ [][RemoteCallFailed => (disk' = disk /\ mem' \in {mem, NoMem})]_vars
    /\ [][(mem # NoMem /\ mem' # NoMem /\ mem'.files # mem.files) =>
            \/ /\ pc = "add_file"
               /\ [id |-> cur.uuid, description |-> cur.file.path] \in vault
               /\ Len(mem'.files) = Len(mem.files) + 1
            \/ /\ pc = "delete_file"
               /\ \A a \in vault : a.id # Uuid(cur.old)
               /\ Len(mem'.files) < Len(mem.files)]_vars
    /\ [][disk' # disk => pc \in {"add_file", "delete_file", "write"}]_vars

\* the run ended on a failed vault call with one file recorded before it
C26_Witness ==
    /\ pc = "aborted"
    /\ disk.kind = "doc"
    /\ Len(disk.files) = 1
    /\ Cardinality(vault) = 1
    /\ PresentPaths = Paths

\* ------------------------------------------------ the sets one pass works on
InPass == pc \in {"loop", "call", "add_file", "delete_file", "write"}

\* the three sets of the pass, the element under way counted in
NewOfPass == diff.new_files \cup (IF cur.kind = "new" THEN {cur.file} ELSE {})
DeletedOfPass == diff.deleted_files \cup (IF cur.kind = "deleted" THEN {cur.old} ELSE {})
ModifiedOfPass ==
    diff.modified_files \cup (IF cur.kind = "modified" THEN {<<cur.file, cur.old>>} ELSE {})

\* the database records whose archives the pass deletes
DeletesOfPass == DeletedOfPass \cup {pr[2] : pr \in ModifiedOfPass}

\* C27: the sets a pass works on are computed once, before its first vault
\* call, from the store as it is then, and never grow; they are pairwise
\* disjoint by path; the pass deletes only archives of records of that
\* snapshot, and the id of an archive it uploads is not among them.
C27_PassWorksOnSnapshot ==
    /\ [][(pc = "idle" /\ pc' = "loop") =>
            /\ vault' = vault /\ mem' = mem /\ disk' = disk
            /\ \A r \in DeletesOfPass' : InSeq(r.file_json_data, mem.files)]_vars
    /\ [][(InPass /\ InPass') =>
            /\ NewOfPass' \subseteq NewOfPass
            /\ DeletedOfPass' \subseteq DeletedOfPass
            /\ ModifiedOfPass' \subseteq ModifiedOfPass]_vars
    /\ [](InPass =>
            /\ PathsOf(NewOfPass) \cap PathsOf(DeletedOfPass) = {}
            /\ PathsOf(NewOfPass) \cap {Path(pr[1]) : pr \in ModifiedOfPass} = {}
            /\ PathsOf(DeletedOfPass) \cap {Path(pr[2]) : pr \in ModifiedOfPass} = {})
    /\ [][(pc = "call" /\ pc' = "delete_file") =>
            /\ cur.old \in DeletesOfPass
            /\ \A a \in vault \ vault' : a.id = Uuid(cur.old)
            /\ Uuid(cur.old) # cur.uuid]_vars
    /\ [][(pc = "call" /\ pc' = "add_file") =>
            \A r \in DeletesOfPass : Uuid(r) # cur'.uuid]_vars

\* a pass with a file to upload and an archive to delete before it
C27_Witness ==
    /\ pc = "loop"
    /\ diff.new_files # {}
    /\ diff.deleted_files # {}
    /\ cur = NoCur

=============================================================================
